---- MODULE Spec2Model ----
(***************************************************************************)
(* Upload-dedup pipeline and stream-session supervisor of the video relay  *)
(* service.  Upload / post_process / delete_if_not_streamed /              *)
(* run_ffmpeg_stream / start_stream follow src/new.py; stop_stream and     *)
(* get_stream_status follow src/main.py (the only file that has them).     *)
(* Every Python thread is a process of the model; a step is the code       *)
(* between two points at which another thread can observe or change the    *)
(* shared dictionaries, the upload folder or a child process.              *)
(***************************************************************************)
EXTENDS Integers, FiniteSets, Sequences, TLC

\* ----------------------------------------------------------------- bounds
MaxUploads == 2
MaxStarts == 2
NumContents == 2
\* uploads and accepted starts of one run, together
MaxRequests == 3
\* accepted starts of one run of the specification with fairness
MaxFairStarts == 1

\* ------------------------------------------------------ program constants
\* max_attempts of the post-stream deletion loop
max_attempts == 5

Assets == 1..MaxUploads
Sessions == 1..MaxStarts
Contents == 1..NumContents

\* The platform table of run_ffmpeg_stream: platform -> destination prefix.
PlatformTable ==
  [youtube   |-> "rtmp://a.rtmp.youtube.com/live2/",
   facebook  |-> "rtmps://live-api-s.facebook.com:443/rtmp/",
   instagram |-> "rtmps://edgetee-upload-del2-1.xx.fbcdn.net:443/rtmp/",
   twitter   |-> "rtmps://live.twitter.com/"]

Platforms == DOMAIN PlatformTable

\* Platform values a start request may carry (one of them is not in the table).
PlatformInputs == {"youtube", "mastodon"}

Terminal == {"completed", "error", "stopped"}

\* A record that was never created.
NoRec == [status |-> "none", process |-> FALSE, error |-> ""]

NoStop == [pc |-> "idle", vid |-> 0, rec |-> 0]

VARIABLES
  content,        \* asset id -> content written by its upload (0: id not
                  \* issued; -c: the write of content c broke off part-way)
  files,          \* asset ids whose file exists in the upload folder
  video_hashes,   \* content hash -> asset id
  active_streams, \* video id -> session whose record object is registered
  rec,            \* session -> its record object (status, process, error)
  post,           \* asset id -> position of its post_process thread
  timer,          \* asset id -> position of its 15-minute timer callback
  sVid,           \* session -> video id of the start request
  sPlat,          \* session -> platform of the start request
  sPc,            \* session -> position of its run_ffmpeg_stream thread
  sExc,           \* session -> exception propagating in the thread ("" none)
  proc,           \* session -> state of the child process it spawned
  attempts,       \* session -> attempts counter of the deletion loop
  stop,           \* the stop_stream request in flight
  startedAtFire,  \* history: asset id -> a start had been accepted for it when
                  \* its timer callback began (kept while the callback runs)
  afterStop       \* history: session -> its start was accepted when a stop of
                  \* its video id had returned 200 and the id had no record
                  \* (kept until the thread has passed its first step)

vars == <<content, files, video_hashes, active_streams, rec, post, timer,
          sVid, sPlat, sPc, sExc, proc, attempts, stop, startedAtFire,
          afterStop>>

uploadVars == <<content, files, video_hashes, post, timer, startedAtFire>>
sessVars == <<sVid, sPlat, sPc, sExc, proc, attempts, afterStop>>

\* ---------------------------------------------------------------- helpers

\* SHA-256 of a content: injective on the contents of the model.
Hash(c) == 1000 + 37 * c

compute_file_hash(a) == Hash(content[a])

\* d[k] = v
DictPut(d, k, v) == [x \in DOMAIN d \cup {k} |-> IF x = k THEN v ELSE d[x]]

\* d.pop(k, None)
DictPop(d, k) == [x \in DOMAIN d \ {k} |-> d[x]]

\* for file_hash, vid in list(video_hashes.items()): if vid == video_id: del
RemoveHashesOf(d, a) == [x \in {h \in DOMAIN d : d[h] # a} |-> d[x]]

\* uuid4: a fresh identifier
NewId == 1 + Cardinality({a \in Assets : content[a] # 0})

NewSession == 1 + Cardinality({s \in Sessions : sPc[s] # "idle"})

\* `process` is a bound local of run_ffmpeg_stream
Bound(p) == p \notin {"nospawn", "spawnfail"}

\* The file is open in a child process that is still running.
FileBusy(a) == \E s \in Sessions : sVid[s] = a /\ proc[s] = "running"

\* cleanup_process: terminate(), wait(timeout=5) and what is left of the child.
\* obeys: the child exits within the 5 seconds after SIGTERM.  When it does
\* not, wait raises TimeoutExpired, which the except clause swallows, and the
\* kill() after the wait is not reached.  A child that has ended is "reaped":
\* nothing reads its return code afterwards.
cleanup_process(p, obeys) ==
  IF p = "running" THEN (IF obeys THEN "reaped" ELSE "running") ELSE "reaped"

\* ALLOWED_EXTENSIONS; a string is the sequence of its characters.
ALLOWED_EXTENSIONS ==
  {<<"m", "p", "4">>, <<"m", "o", "v">>, <<"a", "v", "i">>,
   <<"m", "k", "v">>, <<"w", "e", "b", "m">>}

\* str.lower(), character by character, on the characters of Filenames
LowerChar(ch) ==
  CASE ch = "M" -> "m"
    [] ch = "K" -> "k"
    [] ch = "V" -> "v"
    [] ch = "P" -> "p"
    [] OTHER -> ch

lower(str) == [i \in DOMAIN str |-> LowerChar(str[i])]

\* filename.rsplit('.', 1)[1] of a name with a dot: what follows the last dot
rsplit1(str) ==
  LET last == CHOOSE i \in DOMAIN str :
                str[i] = "." /\ \A j \in DOMAIN str : str[j] = "." => j <= i
  IN  SubSeq(str, last + 1, Len(str))

\* allowed_file without the test of the extension.
allowed_file_any_dot(filename) == \E i \in DOMAIN filename : filename[i] = "."

\* '.' in filename and filename.rsplit('.', 1)[1].lower() in ALLOWED_EXTENSIONS
allowed_file(filename) ==
  /\ \E i \in DOMAIN filename : filename[i] = "."
  /\ lower(rsplit1(filename)) \in ALLOWED_EXTENSIONS

\* File names an upload request may carry.
Filenames ==
  {<<>>,
   <<"m", "p", "4">>,
   <<"a", ".">>,
   <<"a", ".", "m", "p", "4">>,
   <<"a", ".", "M", "k", "V">>,
   <<"a", ".", "e", "x", "e">>,
   <<"a", ".", "m", "p", "4", ".", "e", "x", "e">>,
   <<"a", ".", "e", ".", "m", "o", "v">>}

\* Ids a client can put in a request: the ids it was answered, and ids that
\* name nothing.  The id of an upload that ended in 500 is in no answer.
RequestIds == {a \in Assets : content[a] >= 0}

Init ==
  /\ content = [a \in Assets |-> 0]
  /\ files = {}
  /\ video_hashes = [h \in {} |-> 0]
  /\ active_streams = [v \in {} |-> 0]
  /\ rec = [s \in Sessions |-> NoRec]
  /\ post = [a \in Assets |-> "idle"]
  /\ timer = [a \in Assets |-> "off"]
  /\ sVid = [s \in Sessions |-> 0]
  /\ sPlat = [s \in Sessions |-> ""]
  /\ sPc = [s \in Sessions |-> "idle"]
  /\ sExc = [s \in Sessions |-> ""]
  /\ proc = [s \in Sessions |-> "nospawn"]
  /\ attempts = [s \in Sessions |-> 0]
  /\ stop = NoStop
  /\ startedAtFire = [a \in Assets |-> FALSE]
  /\ afterStop = [s \in Sessions |-> FALSE]

\* ----------------------------------------------------------------- upload

\* The run has an upload left.
CanUpload == NewId <= MaxUploads /\ NewId + NewSession <= MaxRequests + 1

\* upload_video, the answer: 400 without a file part, with an empty file name
\* or with a name that allowed_file refuses; 500 when writing the bytes
\* raises; else 200 with the new id.
UploadResponse(present, filename, written) ==
  IF ~present THEN 400
  ELSE IF filename = <<>> THEN 400
  ELSE IF ~allowed_file(filename) THEN 400
  ELSE IF ~written THEN 500
  ELSE 200

\* upload_video, the videoId of the 200 answer: the answer is built before
\* the file is hashed and always carries the new id.
UploadVideoId(c) == NewId

\* upload_video when open(save_path, 'wb') has created the file and a read or
\* write of a chunk raises: the except clause answers 500.  Nothing removes
\* the file; no post_process thread is started.
UploadWriteError(present, filename, c) ==
  /\ CanUpload
  /\ UploadResponse(present, filename, FALSE) = 500
  /\ content' = [content EXCEPT ![NewId] = 0 - c]
  /\ files' = files \cup {NewId}
  /\ UNCHANGED <<video_hashes, post, timer, active_streams, rec, stop, startedAtFire>>
  /\ UNCHANGED sessVars

\* upload_video with a valid file (the 400 answers change nothing): write the
\* bytes, answer 200 with the new id, start the post_process thread.
Upload(present, filename, c) ==
  /\ CanUpload
  /\ UploadResponse(present, filename, TRUE) = 200
  /\ content' = [content EXCEPT ![NewId] = c]
  /\ files' = files \cup {NewId}
  /\ post' = [post EXCEPT ![NewId] = "hash"]
  /\ UNCHANGED <<video_hashes, timer, active_streams, rec, stop, startedAtFire>>
  /\ UNCHANGED sessVars

\* post_process: compute_file_hash(save_path); a missing file raises, the
\* except clause prints and the thread ends.
PostHash(a) ==
  /\ post[a] = "hash"
  /\ post' = [post EXCEPT ![a] = IF a \in files THEN "check" ELSE "done"]
  /\ UNCHANGED <<content, files, video_hashes, timer, active_streams, rec, stop, startedAtFire>>
  /\ UNCHANGED sessVars

\* post_process: if file_hash in video_hashes
PostCheck(a) ==
  /\ post[a] = "check"
  /\ post' = [post EXCEPT ![a] =
       IF compute_file_hash(a) \in DOMAIN video_hashes THEN "remove" ELSE "insert"]
  /\ UNCHANGED <<content, files, video_hashes, timer, active_streams, rec, stop, startedAtFire>>
  /\ UNCHANGED sessVars

\* The duplicate branch with the Timer of the other branch started as well.
PostRemoveArmsTimer(a) ==
  /\ post[a] = "remove"
  /\ files' = files \ {a}
  /\ timer' = [timer EXCEPT ![a] = "armed"]
  /\ post' = [post EXCEPT ![a] = "done"]
  /\ UNCHANGED <<content, video_hashes, active_streams, rec, stop, startedAtFire>>
  /\ UNCHANGED sessVars

\* post_process, duplicate branch: os.remove(save_path)
PostRemove(a) ==
  /\ post[a] = "remove"
  /\ files' = files \ {a}
  /\ post' = [post EXCEPT ![a] = "done"]
  /\ UNCHANGED <<content, video_hashes, timer, active_streams, rec, stop, startedAtFire>>
  /\ UNCHANGED sessVars

\* post_process, other branch: video_hashes[file_hash] = video_id; Timer(15*60)
PostInsert(a) ==
  /\ post[a] = "insert"
  /\ video_hashes' = DictPut(video_hashes, compute_file_hash(a), a)
  /\ timer' = [timer EXCEPT ![a] = "armed"]
  /\ post' = [post EXCEPT ![a] = "done"]
  /\ UNCHANGED <<content, files, active_streams, rec, stop, startedAtFire>>
  /\ UNCHANGED sessVars

\* delete_if_not_streamed: if video_id not in active_streams
TimerFire(a) ==
  /\ timer[a] = "armed"
  /\ timer' = [timer EXCEPT ![a] =
       IF a \in DOMAIN active_streams THEN "done" ELSE "delete"]
  /\ startedAtFire' = [startedAtFire EXCEPT ![a] =
       a \notin DOMAIN active_streams /\ \E s \in Sessions : sVid[s] = a]
  /\ UNCHANGED <<content, files, video_hashes, post, active_streams, rec, stop>>
  /\ UNCHANGED sessVars

\* delete_if_not_streamed: if os.path.exists(file_path): os.remove(file_path).
\* os.remove may raise while a running child holds the file open; the except
\* clause prints and the callback ends.
TimerDelete(a) ==
  /\ timer[a] = "delete"
  /\ \/ /\ a \in files
        /\ files' = files \ {a}
        /\ timer' = [timer EXCEPT ![a] = "unindex"]
     \/ /\ a \notin files \/ FileBusy(a)
        /\ timer' = [timer EXCEPT ![a] = "done"]
        /\ UNCHANGED files
  /\ startedAtFire' = [startedAtFire EXCEPT ![a] = FALSE]
  /\ UNCHANGED <<content, video_hashes, post, active_streams, rec, stop>>
  /\ UNCHANGED sessVars

\* The callback without its loop over video_hashes.
TimerUnindexNothing(a) ==
  /\ timer[a] = "unindex"
  /\ timer' = [timer EXCEPT ![a] = "done"]
  /\ UNCHANGED <<content, files, video_hashes, post, active_streams, rec, stop, startedAtFire>>
  /\ UNCHANGED sessVars

\* delete_if_not_streamed: the loop deleting the hashes of video_id
TimerUnindex(a) ==
  /\ timer[a] = "unindex"
  /\ video_hashes' = RemoveHashesOf(video_hashes, a)
  /\ timer' = [timer EXCEPT ![a] = "done"]
  /\ UNCHANGED <<content, files, post, active_streams, rec, stop, startedAtFire>>
  /\ UNCHANGED sessVars

\* ---------------------------------------------------------------- sessions

\* start_stream without the lookup in the upload folder.
StartResponseNoLookup(v, platform, fields) == IF ~fields THEN 400 ELSE 200

\* The run has a start left.
CanStart == NewSession <= MaxStarts /\ NewId + NewSession <= MaxRequests + 1

\* start_stream, the answer: 400 on a missing field, 404 when no stored file
\* name contains the id, else 200.  The platform is not looked at.
StartResponse(v, platform, fields) ==
  IF ~fields THEN 400 ELSE IF v \notin files THEN 404 ELSE 200

\* start_stream: the 400 and 404 answers change nothing; the 200 answer
\* starts the run_ffmpeg_stream thread first.
StartStream(v, platform, fields) ==
  /\ StartResponse(v, platform, fields) = 200
  /\ CanStart
  /\ sVid' = [sVid EXCEPT ![NewSession] = v]
  /\ sPlat' = [sPlat EXCEPT ![NewSession] = platform]
  /\ sPc' = [sPc EXCEPT ![NewSession] = "begin"]
  /\ afterStop' = [afterStop EXCEPT ![NewSession] =
       /\ v \notin DOMAIN active_streams
       /\ \E s \in Sessions : sVid[s] = v /\ rec[s].status = "stopped"]
  /\ UNCHANGED <<sExc, proc, attempts, active_streams, rec, stop>>
  /\ UNCHANGED uploadVars

\* run_ffmpeg_stream up to the registration of the record: the platform
\* chain (an unknown platform returns from inside the try block, so the
\* finally block runs next), Popen, active_streams[video_id] = {...}.
\* Popen or the opening of the log file may raise.
SessBegin(s) ==
  /\ sPc[s] = "begin"
  /\ sPlat' = [sPlat EXCEPT ![s] = ""]
  /\ afterStop' = [afterStop EXCEPT ![s] = FALSE]
  /\ \/ /\ sPlat[s] \notin Platforms
        /\ sPc' = [sPc EXCEPT ![s] = "cleanup"]
        /\ UNCHANGED <<proc, sExc, active_streams, rec>>
     \/ /\ sPlat[s] \in Platforms
        /\ proc' = [proc EXCEPT ![s] = "running"]
        /\ active_streams' = DictPut(active_streams, sVid[s], s)
        /\ rec' = [rec EXCEPT ![s] =
             [status |-> "starting", process |-> TRUE, error |-> ""]]
        /\ sPc' = [sPc EXCEPT ![s] = "settle"]
        /\ UNCHANGED sExc
     \/ /\ sPlat[s] \in Platforms
        /\ proc' = [proc EXCEPT ![s] = "spawnfail"]
        /\ sExc' = [sExc EXCEPT ![s] = "OSError"]
        /\ sPc' = [sPc EXCEPT ![s] = "except"]
        /\ UNCHANGED <<active_streams, rec>>
  /\ UNCHANGED <<sVid, attempts, stop>>
  /\ UNCHANGED uploadVars

\* active_streams[video_id]['status'] = st, as the thread of s executes it:
\* the write lands in whatever record is registered under the id; with no
\* record the subscript raises KeyError.
WriteStatus(s, st, next) ==
  IF sVid[s] \in DOMAIN active_streams
  THEN /\ rec' = [rec EXCEPT ![active_streams[sVid[s]]].status = st]
       /\ sPc' = [sPc EXCEPT ![s] = next]
       /\ UNCHANGED sExc
  ELSE /\ sExc' = [sExc EXCEPT ![s] = "KeyError"]
       /\ sPc' = [sPc EXCEPT ![s] = "except"]
       /\ UNCHANGED rec

\* time.sleep(5); active_streams[video_id]['status'] = 'live'
SessLive(s) ==
  /\ sPc[s] = "settle"
  /\ WriteStatus(s, "live", "wait")
  /\ UNCHANGED <<afterStop, sVid, sPlat, proc, attempts, active_streams, stop>>
  /\ UNCHANGED uploadVars

\* The child process ends by itself, with exit code 0 or not.
ChildExit(s, ok) ==
  /\ proc[s] = "running"
  /\ proc' = [proc EXCEPT ![s] = IF ok THEN "exit0" ELSE "exitfail"]
  /\ UNCHANGED <<afterStop, sVid, sPlat, sPc, sExc, attempts, active_streams, rec, stop>>
  /\ UNCHANGED uploadVars

\* process.wait() returns; active_streams[video_id]['status'] = 'completed'
SessWait(s) ==
  /\ sPc[s] = "wait"
  /\ proc[s] # "running"
  /\ proc' = [proc EXCEPT ![s] = "reaped"]
  /\ WriteStatus(s, "completed", "cleanup")
  /\ UNCHANGED <<afterStop, sVid, sPlat, attempts, active_streams, stop>>
  /\ UNCHANGED uploadVars

\* except Exception as e: status = 'error'; error = str(e).  With no record
\* under the id the handler raises KeyError itself; the finally block runs
\* in both cases.
SessExcept(s) ==
  /\ sPc[s] = "except"
  /\ IF sVid[s] \in DOMAIN active_streams
     THEN /\ rec' = [rec EXCEPT ![active_streams[sVid[s]]].status = "error",
                                ![active_streams[sVid[s]]].error = sExc[s]]
          /\ sExc' = [sExc EXCEPT ![s] = ""]
     ELSE /\ sExc' = [sExc EXCEPT ![s] = "KeyError"]
          /\ UNCHANGED rec
  /\ sPc' = [sPc EXCEPT ![s] = "cleanup"]
  /\ UNCHANGED <<afterStop, sVid, sPlat, proc, attempts, active_streams, stop>>
  /\ UNCHANGED uploadVars

\* finally: cleanup_process(process).  When `process` was never bound the
\* call raises UnboundLocalError and the rest of the finally block is skipped.
SessCleanup(s) ==
  /\ sPc[s] = "cleanup"
  /\ IF Bound(proc[s])
     THEN /\ \E obeys \in BOOLEAN :
               proc' = [proc EXCEPT ![s] = cleanup_process(proc[s], obeys)]
          /\ sPc' = [sPc EXCEPT ![s] = "delete"]
          /\ UNCHANGED sExc
     ELSE /\ sExc' = [sExc EXCEPT ![s] = "UnboundLocalError"]
          /\ sPc' = [sPc EXCEPT ![s] = "died"]
          /\ UNCHANGED proc
  /\ UNCHANGED <<afterStop, sVid, sPlat, attempts, active_streams, rec, stop>>
  /\ UNCHANGED uploadVars

\* The deletion loop is left: Timer(300, pop).start() and the thread ends
\* (an exception still propagating ends it with a traceback); its locals go.
LeaveLoop(s) ==
  /\ sPc' = [sPc EXCEPT ![s] = "armed"]
  /\ attempts' = [attempts EXCEPT ![s] = 0]
  /\ sExc' = [sExc EXCEPT ![s] = ""]

\* The deletion loop without the os.path.exists test: os.remove of a file
\* that is not there raises, which counts as a failed pass.
SessDeleteNoExistsTest(s) ==
  /\ sPc[s] = "delete"
  /\ \/ /\ sVid[s] \in files
        /\ files' = files \ {sVid[s]}
        /\ sPc' = [sPc EXCEPT ![s] = "unindex"]
        /\ UNCHANGED <<attempts, sExc>>
     \/ /\ sVid[s] \notin files \/ FileBusy(sVid[s])
        /\ IF attempts[s] + 1 < max_attempts
           THEN /\ attempts' = [attempts EXCEPT ![s] = @ + 1]
                /\ UNCHANGED <<sPc, sExc>>
           ELSE LeaveLoop(s)
        /\ UNCHANGED files
  /\ UNCHANGED <<content, video_hashes, post, timer, startedAtFire>>
  /\ UNCHANGED <<afterStop, sVid, sPlat, proc, active_streams, rec, stop>>

\* The deletion loop with `while True`: a failed pass is always retried.
SessDeleteNoBound(s) ==
  /\ sPc[s] = "delete"
  /\ \/ /\ sVid[s] \notin files
        /\ LeaveLoop(s)
        /\ UNCHANGED files
     \/ /\ sVid[s] \in files
        /\ files' = files \ {sVid[s]}
        /\ sPc' = [sPc EXCEPT ![s] = "unindex"]
        /\ UNCHANGED <<attempts, sExc>>
     \/ /\ sVid[s] \in files
        /\ FileBusy(sVid[s])
        /\ attempts' = [attempts EXCEPT ![s] = @ + 1]
        /\ UNCHANGED <<sPc, sExc, files>>
  /\ UNCHANGED <<content, video_hashes, post, timer, startedAtFire>>
  /\ UNCHANGED <<afterStop, sVid, sPlat, proc, active_streams, rec, stop>>

\* One pass of the deletion loop (the sleep before it included): no file:
\* break; os.remove succeeds: go on to the hashes; os.remove raises (the file
\* is held open by a running child): attempts += 1 and retry while
\* attempts < max_attempts.
SessDelete(s) ==
  /\ sPc[s] = "delete"
  /\ \/ /\ sVid[s] \notin files
        /\ LeaveLoop(s)
        /\ UNCHANGED files
     \/ /\ sVid[s] \in files
        /\ files' = files \ {sVid[s]}
        /\ sPc' = [sPc EXCEPT ![s] = "unindex"]
        /\ UNCHANGED <<attempts, sExc>>
     \/ /\ sVid[s] \in files
        /\ FileBusy(sVid[s])
        /\ IF attempts[s] + 1 < max_attempts
           THEN /\ attempts' = [attempts EXCEPT ![s] = @ + 1]
                /\ UNCHANGED <<sPc, sExc>>
           ELSE LeaveLoop(s)
        /\ UNCHANGED files
  /\ UNCHANGED <<content, video_hashes, post, timer, startedAtFire>>
  /\ UNCHANGED <<afterStop, sVid, sPlat, proc, active_streams, rec, stop>>

\* The loop deleting the hashes of video_id, then break
SessUnindex(s) ==
  /\ sPc[s] = "unindex"
  /\ video_hashes' = RemoveHashesOf(video_hashes, sVid[s])
  /\ LeaveLoop(s)
  /\ UNCHANGED <<content, files, post, timer, startedAtFire>>
  /\ UNCHANGED <<afterStop, sVid, sPlat, proc, active_streams, rec, stop>>

\* The 300-second timer fires: active_streams.pop(video_id, None)
GraceFire(s) ==
  /\ sPc[s] = "armed"
  /\ active_streams' = DictPop(active_streams, sVid[s])
  /\ sPc' = [sPc EXCEPT ![s] = "done"]
  /\ UNCHANGED <<afterStop, sVid, sPlat, sExc, proc, attempts, rec, stop>>
  /\ UNCHANGED uploadVars

\* stop_stream, the answer: 404 with no record under the id, else 200.
StopResponse(v) == IF v \notin DOMAIN active_streams THEN 404 ELSE 200

\* stop_stream up to the return of cleanup_process (the 404 answer changes
\* nothing): stream_data = active_streams[video_id] and, when the record
\* holds a process, cleanup_process(stream_data['process']).
StopBegin(v) ==
  /\ stop.pc = "idle"
  /\ StopResponse(v) = 200
  /\ stop' = [pc |-> "finish", vid |-> v, rec |-> active_streams[v]]
  /\ IF rec[active_streams[v]].process
     THEN \E obeys \in BOOLEAN :
            proc' = [proc EXCEPT ![active_streams[v]] =
                       cleanup_process(proc[active_streams[v]], obeys)]
     ELSE UNCHANGED proc
  /\ UNCHANGED <<afterStop, sVid, sPlat, sPc, sExc, attempts, active_streams, rec>>
  /\ UNCHANGED uploadVars

\* stop_stream with the pop left out: the record stays registered.
StopFinishNoPop ==
  /\ stop.pc = "finish"
  /\ rec' = [rec EXCEPT ![stop.rec].status = "stopped",
                        ![stop.rec].process = FALSE]
  /\ stop' = NoStop
  /\ UNCHANGED active_streams
  /\ UNCHANGED sessVars
  /\ UNCHANGED uploadVars

\* stop_stream, the rest: status = 'stopped', process = None on stream_data,
\* active_streams.pop(video_id, None), 200.
StopFinish ==
  /\ stop.pc = "finish"
  /\ rec' = [rec EXCEPT ![stop.rec].status = "stopped",
                        ![stop.rec].process = FALSE]
  /\ active_streams' = DictPop(active_streams, stop.vid)
  /\ stop' = NoStop
  /\ UNCHANGED sessVars
  /\ UNCHANGED uploadVars

\* get_stream_status, the answer: 404 with no record under the id, else 200
\* with the record.
StatusResponse(v) == IF v \notin DOMAIN active_streams THEN 404 ELSE 200

\* get_stream_status without the poll() branch.
GetStatusNoPoll(v) ==
  /\ StatusResponse(v) = 200
  /\ UNCHANGED <<active_streams, rec, stop>>
  /\ UNCHANGED sessVars
  /\ UNCHANGED uploadVars

\* get_stream_status (the 404 answer changes nothing): a record whose
\* process has ended is set to 'completed' and loses the process.
GetStatus(v) ==
  /\ StatusResponse(v) = 200
  /\ rec' = IF rec[active_streams[v]].process /\ proc[active_streams[v]] # "running"
            THEN [rec EXCEPT ![active_streams[v]].status = "completed",
                             ![active_streams[v]].process = FALSE]
            ELSE rec
  /\ UNCHANGED <<active_streams, stop>>
  /\ UNCHANGED sessVars
  /\ UNCHANGED uploadVars

Next ==
  \/ /\ CanUpload
     /\ \E present \in BOOLEAN, filename \in Filenames, c \in Contents :
          Upload(present, filename, c)
  \/ /\ CanUpload
     /\ \E present \in BOOLEAN, filename \in Filenames, c \in Contents :
          UploadWriteError(present, filename, c)
  \/ \E a \in Assets : PostHash(a)
  \/ \E a \in Assets : PostCheck(a)
  \/ \E a \in Assets : PostRemove(a)
  \/ \E a \in Assets : PostInsert(a)
  \/ \E a \in Assets : TimerFire(a)
  \/ \E a \in Assets : TimerDelete(a)
  \/ \E a \in Assets : TimerUnindex(a)
  \/ \E v \in RequestIds, p \in PlatformInputs, f \in BOOLEAN : StartStream(v, p, f)
  \/ \E s \in Sessions : SessBegin(s)
  \/ \E s \in Sessions : SessLive(s)
  \/ \E s \in Sessions, ok \in BOOLEAN : ChildExit(s, ok)
  \/ \E s \in Sessions : SessWait(s)
  \/ \E s \in Sessions : SessExcept(s)
  \/ \E s \in Sessions : SessCleanup(s)
  \/ \E s \in Sessions : SessDelete(s)
  \/ \E s \in Sessions : SessUnindex(s)
  \/ \E s \in Sessions : GraceFire(s)
  \/ \E v \in RequestIds : StopBegin(v)
  \/ StopFinish
  \/ \E v \in RequestIds : GetStatus(v)

Spec == Init /\ [][Next]_vars

\* A post_process thread that was started runs to its end; a
\* threading.Timer that was started fires, and its callback runs to its end.
BackgroundFairness ==
  \A a \in Assets :
    /\ WF_vars(PostHash(a))
    /\ WF_vars(PostCheck(a))
    /\ WF_vars(PostRemove(a))
    /\ WF_vars(PostInsert(a))
    /\ WF_vars(TimerFire(a))
    /\ WF_vars(TimerDelete(a))
    /\ WF_vars(TimerUnindex(a))

\* A run_ffmpeg_stream thread that can take its next step takes it (a thread
\* in process.wait() can take none while its child runs), the 300-second
\* timer fires, and a stop_stream request runs to its answer.  Nothing
\* makes a child process exit.
SessionFairness ==
  /\ \A s \in Sessions :
       /\ WF_vars(SessBegin(s))
       /\ WF_vars(SessLive(s))
       /\ WF_vars(SessWait(s))
       /\ WF_vars(SessExcept(s))
       /\ WF_vars(SessCleanup(s))
       /\ WF_vars(SessDelete(s))
       /\ WF_vars(SessUnindex(s))
       /\ WF_vars(GraceFire(s))
  /\ WF_vars(StopFinish)

\* The runs with at most MaxFairStarts accepted starts.
FairNext ==
  \/ /\ CanUpload
     /\ \E present \in BOOLEAN, filename \in Filenames, c \in Contents :
          Upload(present, filename, c)
  \/ /\ CanUpload
     /\ \E present \in BOOLEAN, filename \in Filenames, c \in Contents :
          UploadWriteError(present, filename, c)
  \/ \E a \in Assets : PostHash(a)
  \/ \E a \in Assets : PostCheck(a)
  \/ \E a \in Assets : PostRemove(a)
  \/ \E a \in Assets : PostInsert(a)
  \/ \E a \in Assets : TimerFire(a)
  \/ \E a \in Assets : TimerDelete(a)
  \/ \E a \in Assets : TimerUnindex(a)
  \/ \E v \in RequestIds, p \in PlatformInputs, f \in BOOLEAN :
       NewSession <= MaxFairStarts /\ StartStream(v, p, f)
  \/ \E s \in Sessions : SessBegin(s)
  \/ \E s \in Sessions : SessLive(s)
  \/ \E s \in Sessions, ok \in BOOLEAN : ChildExit(s, ok)
  \/ \E s \in Sessions : SessWait(s)
  \/ \E s \in Sessions : SessExcept(s)
  \/ \E s \in Sessions : SessCleanup(s)
  \/ \E s \in Sessions : SessDelete(s)
  \/ \E s \in Sessions : SessUnindex(s)
  \/ \E s \in Sessions : GraceFire(s)
  \/ \E v \in RequestIds : StopBegin(v)
  \/ StopFinish
  \/ \E v \in RequestIds : GetStatus(v)

FairSpec == Init /\ [][FairNext]_vars /\ BackgroundFairness /\ SessionFairness

\* ------------------------------------------------------------------ claims

\* The session s has its record registered under its video id.
Registered(s) ==
  sVid[s] \in DOMAIN active_streams /\ active_streams[sVid[s]] = s

\* No timer callback and no session has touched the asset yet.
Untouched(a) ==
  timer[a] \in {"off", "armed"} /\ \A s \in Sessions : sVid[s] # a

\* C1: of two uploads with the same bytes whose hashing tasks have both
\* finished (and that nothing else has touched), exactly one file is left and
\* the Dedup Index maps the hash to that asset.
C1_ExactlyOneSurvives ==
  \A a, b \in Assets :
    ( /\ a < b
      /\ content[a] # 0
      /\ content[a] = content[b]
      /\ post[a] = "done" /\ post[b] = "done"
      /\ Untouched(a) /\ Untouched(b) )
    => /\ Cardinality({a, b} \cap files) = 1
       /\ compute_file_hash(a) \in DOMAIN video_hashes
       /\ video_hashes[compute_file_hash(a)] \in {a, b} \cap files

\* C2: the status of a session's record only moves forward: a record that
\* holds completed, error or stopped keeps that status, and live never goes
\* back to starting.
C2_StatusMonotonic ==
  [][\A s \in Sessions :
       /\ rec[s].status \in Terminal => rec'[s].status = rec[s].status
       /\ rec[s].status = "live" => rec'[s].status # "starting"]_vars

\* C3: on every exit path of a session (a start whose platform is in the
\* table) the cleanup sequence is run: the supervising thread never ends
\* before it has gone through the file-deletion loop.
C3_CleanupOnEveryExit ==
  \A s \in Sessions :
    (proc[s] # "nospawn" /\ sPc[s] \in {"armed", "done", "died"})
    => sPc[s] # "died"

\* C4: when cleanup_process returns, in the finally block of the supervising
\* thread or in stop_stream, the child is not running; after stop_stream has
\* answered 200 the child of the stopped record is not running.
C4_ChildDeadAfterCleanup ==
  [][/\ \A s \in Sessions :
          (sPc[s] = "cleanup" /\ sPc'[s] = "delete") => proc'[s] # "running"
     /\ (stop.pc = "idle" /\ stop'.pc = "finish") => proc'[stop'.rec] # "running"
     /\ (stop.pc = "finish" /\ stop'.pc = "idle") => proc'[stop.rec] # "running"]_vars

\* C5: the retention timer callback never deletes the file of an asset for
\* which a start had been accepted when the callback began.
C5_TimerSparesStartedAsset ==
  [][\A a \in Assets :
       (timer[a] = "delete" /\ timer'[a] = "unindex" /\ a \notin files')
       => ~startedAtFire[a]]_vars

\* C6: a start for a video id that has a starting or live session spawns no
\* second child: no video id ever has two running child processes.
C6_SecondStartRejected ==
  \A s, t \in Sessions :
    (s # t /\ sVid[s] # 0 /\ sVid[s] = sVid[t])
    => ~(proc[s] = "running" /\ proc[t] = "running")

\* C7: a start whose platform is not in the table is not accepted: the 200
\* answer, which is the one that starts a supervising thread, is never given
\* to a request with such a platform.
C7_InvalidPlatformRejected ==
  \A s \in Sessions : sPc[s] = "begin" => sPlat[s] \in Platforms

\* C8: when the supervising thread sees its child's exit and the child has
\* exited with a failure, the session's record gets status error with a
\* non-empty error detail.
C8_FailedChildEndsInError ==
  [][\A s \in Sessions :
       (sPc[s] = "wait" /\ sPc'[s] # "wait" /\ proc[s] = "exitfail" /\ Registered(s))
       => (rec'[s].status = "error" /\ rec'[s].error # "")]_vars

\* C9: the exception handler of the supervising thread does not fail: it
\* leaves a registered record with status error holding the message of the
\* exception it caught.
C9_HandlerRecordsError ==
  [][\A s \in Sessions :
       (sPc[s] = "except" /\ sPc'[s] # "except")
       => /\ sExc'[s] = ""
          /\ sVid[s] \in DOMAIN active_streams'
          /\ rec'[active_streams'[sVid[s]]].status = "error"
          /\ rec'[active_streams'[sVid[s]]].error = sExc[s]]_vars

InGrace(s) == sPc[s] \in {"cleanup", "delete", "unindex", "armed"}

\* C11: a session whose record got completed or error from its supervising
\* thread stays registered under its video id (get_stream_status resolves
\* it) until the 300-second timer armed at the end of its cleanup fires.
\* A record that a stop_stream request in flight has read is left out: the
\* explicit stop removes at once.
C11_KeptUntilGraceFires ==
  [][\A s \in Sessions :
       ( /\ Registered(s)
         /\ rec[s].status \in {"completed", "error"}
         /\ InGrace(s)
         /\ stop.rec # s )
       => (Registered(s)' \/ sPc'[s] = "done")]_vars

Started(a) == \E s \in Sessions : sVid[s] = a

\* The retention timer of the asset has run: no file, no entry naming it.
Expired(a) ==
  /\ timer[a] = "done"
  /\ a \notin files
  /\ \A h \in DOMAIN video_hashes : video_hashes[h] # a

\* The hashing thread of the asset took the duplicate branch.
Discarded(a) == post[a] = "done" /\ timer[a] = "off"

\* C13: an uploaded asset that is not discarded as a duplicate and for which
\* no start is ever made gets its retention timer armed, and the timer
\* deletes its file and removes every Dedup Index entry naming it; the timer
\* callback leaves the entries of other assets as they are.
C13_UnusedAssetExpires ==
  /\ \A a \in Assets :
       (content[a] > 0) ~> (Started(a) \/ Discarded(a) \/ Expired(a))
  /\ [][\A a \in Assets :
          (timer[a] \in {"armed", "delete", "unindex"} /\ timer'[a] # timer[a])
          => /\ \A h \in DOMAIN video_hashes :
                  video_hashes[h] # a
                  => (h \in DOMAIN video_hashes' /\ video_hashes'[h] = video_hashes[h])
             /\ DOMAIN video_hashes' \subseteq DOMAIN video_hashes
             /\ files' \in {files, files \ {a}}
             /\ (~Started(a) /\ timer'[a] = "done") => Expired(a)']_vars

\* C13 witness: an asset that was never started has had its file and its
\* entry removed by its timer, while another asset keeps its file and its
\* entry.
C13_Witness ==
  \E a, b \in Assets :
    /\ a # b
    /\ content[a] > 0 /\ ~Started(a) /\ Expired(a)
    /\ b \in files
    /\ \E h \in DOMAIN video_hashes : video_hashes[h] = b

\* A session of the asset has ended and the file of the asset is gone.
CleanedUp(a) ==
  /\ a \notin files
  /\ \E s \in Sessions : sVid[s] = a /\ sPc[s] \in {"armed", "done"}

\* C14: when an upload arrives, the Dedup Index holds no entry for its
\* content that names an asset whose session has ended and whose file the
\* cleanup has deleted (so the upload is kept as a new asset).
C14_ReuploadAfterSessionIsNew ==
  [][\A b \in Assets :
       (content[b] = 0 /\ content'[b] # 0)
       => ~( /\ Hash(content'[b]) \in DOMAIN video_hashes
             /\ CleanedUp(video_hashes[Hash(content'[b])]) )]_vars

\* The record registered under v holds the handle of a child that has exited.
ExitedUnseen(v) ==
  /\ v \in DOMAIN active_streams
  /\ rec[active_streams[v]].process
  /\ proc[active_streams[v]] # "running"

\* C15: get_stream_status answers 404 for an id with no record and changes
\* nothing; for an id whose record holds the handle of an exited child it
\* sets the record to completed and drops the handle; no other record, and
\* no record whose child is running, is changed by a status request.
C15_StatusReconciles ==
  /\ [](\A v \in Assets :
          /\ v \notin DOMAIN active_streams
               => (StatusResponse(v) = 404 /\ ~ENABLED GetStatus(v))
          /\ ExitedUnseen(v)
               => ENABLED ( /\ GetStatus(v)
                            /\ rec'[active_streams[v]].status = "completed"
                            /\ ~rec'[active_streams[v]].process ))
  /\ [][(rec' # rec /\ UNCHANGED <<active_streams, stop, sessVars, uploadVars>>)
        => \E v \in Assets :
             /\ ExitedUnseen(v)
             /\ rec' = [rec EXCEPT ![active_streams[v]].status = "completed",
                                   ![active_streams[v]].process = FALSE]]_vars

\* C15 witness: a status request has set a record to completed and dropped
\* its handle before the supervising thread saw the exit of the child.
C15_Witness ==
  \E s \in Sessions :
    /\ Registered(s)
    /\ sPc[s] \in {"settle", "wait"}
    /\ rec[s].status = "completed"
    /\ ~rec[s].process

\* C16: an upload whose write breaks off part-way is answered with a failure
\* and leaves no file in the upload folder, starts no hashing thread and
\* leaves the Dedup Index as it was.
C16_WriteErrorLeavesNothing ==
  [][\A a \in Assets :
       (content[a] = 0 /\ content'[a] < 0)
       => /\ a \notin files'
          /\ post'[a] = "idle"
          /\ video_hashes' = video_hashes]_vars

\* The name ends in a dot followed by the extension ext, in any case.
EndsWith(filename, ext) ==
  /\ Len(filename) > Len(ext)
  /\ filename[Len(filename) - Len(ext)] = "."
  /\ \A i \in 1..Len(ext) :
       LowerChar(filename[Len(filename) - Len(ext) + i]) = ext[i]

\* An upload request with no file part, with an empty file name, or with a
\* name whose extension is none of mp4, mov, avi, mkv, webm.
Rejected(present, filename) ==
  \/ ~present
  \/ filename = <<>>
  \/ ~\E ext \in ALLOWED_EXTENSIONS : EndsWith(filename, ext)

\* C17: an upload request with no file part, an empty file name or an
\* extension outside the allow-list (compared without case) is answered 400
\* and is no step of the program: it writes no file, starts no hashing
\* thread, arms no timer and changes neither the Dedup Index nor the
\* registry.
C17_RejectedUploadHasNoEffect ==
  CanUpload =>
    \A present \in BOOLEAN, filename \in Filenames :
      Rejected(present, filename) =>
        /\ \A written \in BOOLEAN : UploadResponse(present, filename, written) = 400
        /\ \A c \in Contents :
             /\ ~ENABLED Upload(present, filename, c)
             /\ ~ENABLED UploadWriteError(present, filename, c)

\* C17 witness: with a file stored, an index entry and a registered session,
\* an upload is still possible (a request with name a.MkV would be taken),
\* and requests of the three refused kinds are answered 400.
C17_Witness ==
  /\ CanUpload
  /\ files # {} /\ DOMAIN video_hashes # {} /\ DOMAIN active_streams # {}
  /\ ENABLED Upload(TRUE, <<"a", ".", "M", "k", "V">>, 1)
  /\ UploadResponse(FALSE, <<"a", ".", "m", "p", "4">>, TRUE) = 400
  /\ UploadResponse(TRUE, <<>>, TRUE) = 400
  /\ UploadResponse(TRUE, <<"a", ".", "m", "p", "4", ".", "e", "x", "e">>, TRUE) = 400
  /\ UploadResponse(TRUE, <<"m", "p", "4">>, TRUE) = 400

\* C18: a start request for an id with no stored file is answered 404 and is
\* no step of the program (no thread, so no child and no record); every
\* supervising thread that is started was started for an id whose file was
\* in the upload folder.
C18_NoFileNoSession ==
  /\ [](CanStart =>
          \A v \in Assets, p \in PlatformInputs :
            v \notin files =>
              /\ StartResponse(v, p, TRUE) = 404
              /\ \A f \in BOOLEAN : ~ENABLED StartStream(v, p, f))
  /\ [][\A s \in Sessions :
          (sPc[s] = "idle" /\ sPc'[s] # "idle")
          => (sVid'[s] \in files /\ sPc'[s] = "begin")]_vars

\* C18 witness: of two uploads one was discarded as a duplicate; a start for
\* the kept one would be accepted, a start for the discarded one is answered
\* 404.
C18_Witness ==
  \E a, b \in Assets :
    /\ a \in files /\ b \notin files
    /\ content[b] > 0 /\ Discarded(b)
    /\ ENABLED StartStream(a, "youtube", TRUE)
    /\ StartResponse(b, "youtube", TRUE) = 404

\* C19: an upload whose content is that of a live asset recorded in the
\* Dedup Index (the entry of its hash names an asset whose file exists) is
\* answered with the id of that asset.
C19_DuplicateGetsExistingId ==
  [][\A b \in Assets :
       ( /\ content[b] = 0 /\ content'[b] > 0
         /\ Hash(content'[b]) \in DOMAIN video_hashes
         /\ video_hashes[Hash(content'[b])] \in files )
       => UploadVideoId(content'[b]) = video_hashes[Hash(content'[b])]]_vars

\* C20: from the moment a start is accepted, a status or stop request for the
\* id is not answered 404 while the child is still to be spawned: in the
\* state in which the supervising thread spawns its child, both requests
\* find a record under the id.
C20_RecordExistsOnceAccepted ==
  [][\A s \in Sessions :
       (sPc[s] = "begin" /\ sPc'[s] = "settle")
       => /\ StatusResponse(sVid[s]) = 200
          /\ StopResponse(sVid[s]) = 200]_vars

\* C21: a session whose child has exited before the settle delay is over is
\* not set to live: the step that ends the settle delay writes live into
\* the session's record only when the child is still running.
C21_LiveOnlyIfChildRuns ==
  [][\A s \in Sessions :
       (sPc[s] = "settle" /\ sPc'[s] # "settle" /\ Registered(s)
          /\ proc[s] # "running")
       => rec'[s].status # "live"]_vars

\* C22: once stop_stream has answered 200 for a session, the supervising
\* thread of the session gets out of process.wait() and through its cleanup
\* to the end of its finally block.
C22_StopUnblocksSupervisor ==
  \A s \in Sessions :
    (rec[s].status = "stopped" /\ stop.pc = "idle")
      ~> (sPc[s] \in {"armed", "done"})

\* Index entries naming the asset.
EntriesOf(d, a) == {h \in DOMAIN d : d[h] = a}

\* C23: the deletion loop of the finally block counts its failed attempts
\* and never has more than max_attempts of them.  A pass that finds no file
\* or removes the file ends the loop (after a removal the entries naming the
\* id are deleted); a failed pass changes neither the file nor the index
\* and is followed by another pass, except the fifth, which ends the loop
\* with the file and its entries in place.  However the loop ends, the
\* thread goes on to arm the 300-second timer and ends.
C23_DeletionLoopBounded ==
  /\ [](\A s \in Sessions :
          /\ attempts[s] \in 0..(max_attempts - 1)
          /\ sPc[s] \notin {"delete", "unindex"} => attempts[s] = 0)
  /\ [][\A s \in Sessions :
          /\ (sPc[s] = "delete" /\ sPc'[s] = "delete" /\ attempts'[s] # attempts[s])
               => /\ attempts'[s] = attempts[s] + 1
                  /\ files' = files /\ sVid[s] \in files
                  /\ video_hashes' = video_hashes
          /\ (sPc[s] = "delete" /\ sPc'[s] # "delete")
               => \/ /\ sPc'[s] = "armed"
                     /\ sVid[s] \notin files /\ files' = files
                     /\ video_hashes' = video_hashes
                  \/ /\ sPc'[s] = "unindex"
                     /\ sVid[s] \in files /\ files' = files \ {sVid[s]}
                  \/ /\ sPc'[s] = "armed"
                     /\ attempts[s] = max_attempts - 1
                     /\ sVid[s] \in files /\ files' = files
                     /\ video_hashes' = video_hashes
          /\ (sPc[s] = "unindex" /\ sPc'[s] # "unindex")
               => /\ sPc'[s] = "armed"
                  /\ EntriesOf(video_hashes', sVid[s]) = {}
          /\ (sPc[s] = "armed" /\ sPc'[s] # "armed")
               => /\ sPc'[s] = "done"
                  /\ sVid[s] \notin DOMAIN active_streams']_vars

\* C23 witness: a supervising thread has left the loop after the fifth
\* failure: its timer is armed, the file and an entry naming it are still
\* there.
C23_Witness ==
  \E s \in Sessions :
    /\ sPc[s] = "armed"
    /\ sVid[s] \in files
    /\ EntriesOf(video_hashes, sVid[s]) # {}

\* C24: the cleanup steps run for a session whose child is already gone and
\* whose file is already deleted raise nothing and change nothing:
\* cleanup_process on a child that has ended leaves it ended, whether or not
\* it would obey, and a second call changes nothing more; the finally block
\* goes through cleanup_process without an exception and the deletion loop
\* ends at its first pass with the upload folder, the Dedup Index and the
\* registry as they were.
C24_CleanupIdempotent ==
  /\ [](\A p \in {"exit0", "exitfail", "reaped"}, o1, o2 \in BOOLEAN :
          /\ cleanup_process(p, o1) = "reaped"
          /\ cleanup_process(cleanup_process(p, o1), o2) = cleanup_process(p, o1))
  /\ [][\A s \in Sessions :
          /\ (sPc[s] = "cleanup" /\ sPc'[s] # "cleanup"
                /\ Bound(proc[s]) /\ proc[s] # "running")
               => /\ sPc'[s] = "delete"
                  /\ proc'[s] = "reaped"
                  /\ sExc'[s] = sExc[s]
                  /\ files' = files
                  /\ video_hashes' = video_hashes
                  /\ active_streams' = active_streams
          /\ (sPc[s] = "delete" /\ sVid[s] \notin files /\ proc[s] # "running"
                /\ (sPc'[s] # sPc[s] \/ attempts'[s] # attempts[s]))
               => /\ sPc'[s] = "armed"
                  /\ sExc'[s] = ""
                  /\ files' = files
                  /\ video_hashes' = video_hashes
                  /\ active_streams' = active_streams]_vars

\* C24 witness: a session was stopped (stop_stream has run cleanup_process
\* on its child) and the retention timer has deleted the file and the
\* entries of its id; the supervising thread now runs its own cleanup, and
\* has got past cleanup_process to the deletion loop.
C24_Witness ==
  \E s \in Sessions :
    /\ rec[s].status = "stopped"
    /\ sPc[s] = "delete"
    /\ proc[s] = "reaped"
    /\ sVid[s] \notin files
    /\ timer[sVid[s]] = "done"

\* C25: the hashing thread of an upload does not delete the file of an asset
\* for which a start has been accepted.
C25_HashingSparesStartedAsset ==
  [][\A a \in Assets :
       (post[a] = "remove" /\ post'[a] = "done" /\ a \in files /\ a \notin files')
       => ~Started(a)]_vars

\* C26: the 300-second timer armed at the end of a session removes no record
\* of another session: a session that is registered with status starting or
\* live is still registered after the timer of a different session has
\* fired.
C26_PurgeRemovesOwnRecordOnly ==
  [][\A s, t \in Sessions :
       ( /\ s # t
         /\ sPc[s] = "armed" /\ sPc'[s] = "done"
         /\ Registered(t)
         /\ rec[t].status \in {"starting", "live"} )
       => Registered(t)']_vars

\* No timer callback and no deletion loop is between its os.remove and its
\* loop over video_hashes.
AtRest ==
  /\ \A a \in Assets : timer[a] # "unindex"
  /\ \A s \in Sessions : sPc[s] # "unindex"

\* C27: at rest, every Dedup Index entry names an asset whose file is in the
\* upload folder.
C27_NoOrphanedEntries ==
  AtRest => \A h \in DOMAIN video_hashes : video_hashes[h] \in files

====
